---- MODULE Spec2Model ----
(***************************************************************************)
(* Model of dtsnmp/vss_aggregator_mib.py: the VSSAggregatorMIB connector   *)
(* (poll_properties, poll_metrics, _poll_NetworkActivityStats,             *)
(* _poll_PortStatus) and its per-row processing functions.                 *)
(*                                                                         *)
(* A call blocks at the transport boundary: it first issues its bulk       *)
(* request (snmp_connect_bulk) and then consumes envelopes that the        *)
(* transport delivers.  The model splits every call at that boundary: one  *)
(* action issues the request, the next ones consume envelopes and run the  *)
(* rest of the method.                                                     *)
(*                                                                         *)
(* Python str values are TLA+ strings, except storage labels, which are    *)
(* sequences of one-character strings because the code lower-cases them    *)
(* and searches them for substrings.  Floats are exact fractions.          *)
(***************************************************************************)
EXTENDS Integers, Sequences, FiniteSets, TLC

VARIABLES
    pc,         \* position of the connector: "idle", or the method blocked on the transport
    call,       \* method of the current (or last finished) call
    requests,   \* argument lists of the snmp_connect_bulk calls of that call, in order
    response,   \* envelopes the transport delivered to that call, in order
    consumed,   \* number of envelopes the call read from the generator
    events,     \* functions the call ran, in order
    outcome,    \* "none" while running, "returned" or "raised" at the end
    error,      \* the exception a raised call ended with
    result,     \* reference of the mapping handed to the caller, 0 when none
    heap,       \* dict objects alive: reference -> mapping
    returned,   \* references of the property mappings the caller holds, oldest first
    acc,        \* reference of the running call's accumulator dict (props, metrics), else 0
    processor   \* per-row function process_metrics was given, "" outside a walk

vars == <<pc, call, requests, response, consumed, events, outcome, error,
          result, heap, returned, acc, processor>>

(*************************** bounds ****************************************)
MaxCalls == 2       \* property mappings the caller holds on to
MaxRows == 2        \* rows a table walk delivers
MaxEnvelopes == 2   \* envelopes in the response to the property request

(*************************** Python values *********************************)
None == "None"

\* truth value of a str-or-None and of an integer
Truthy(x) == x \notin {None, ""}
NonZero(n) == n # 0

\* Python's seq[i] for i >= 0 (0-based); HasItem is false where it raises IndexError
HasItem(seq, i) == i \in 0 .. (Len(seq) - 1)
Item(seq, i) == seq[i + 1]

NoError == [type |-> "", msg |-> ""]
Exception(msg) == [type |-> "Exception", msg |-> msg]
IndexError == [type |-> "IndexError", msg |-> "list index out of range"]
ValueError == [type |-> "ValueError", msg |-> "could not convert string to float"]
ZeroDivisionError == [type |-> "ZeroDivisionError", msg |-> "float division by zero"]
AttributeError(name) ==
    [type |-> "AttributeError", msg |-> "'VSSAggregatorMIB' object has no attribute '" \o name \o "'"]

\* dicts
EmptyDict == <<>>
DictSet(d, k, v) == [x \in (DOMAIN d) \cup {k} |-> IF x = k THEN v ELSE d[x]]
DictGet(d, k, dflt) == IF k \in DOMAIN d THEN d[k] ELSE dflt
\* d.setdefault(k, []).append(v)
SetDefaultAppend(d, k, v) == DictSet(d, k, Append(DictGet(d, k, <<>>), v))

\* pysnmp values
OctetString(s) == [type |-> "OctetString", val |-> s]
Integer32(n) == [type |-> "Integer32", val |-> n]
TimeTicks(n) == [type |-> "TimeTicks", val |-> n]

\* str(value)
PyStr(v) == IF v.type = "OctetString" THEN v.val ELSE ToString(v.val)

\* '%s' % oid: the dotted form of an ObjectName (a sequence of arcs)
RECURSIVE OidStr(_)
OidStr(oid) ==
    IF Len(oid) = 0 THEN ""
    ELSE IF Len(oid) = 1 THEN ToString(oid[1])
    ELSE OidStr(SubSeq(oid, 1, Len(oid) - 1)) \o "." \o ToString(oid[Len(oid)])

\* floats, as fractions in lowest terms with a positive denominator
RECURSIVE Gcd(_, _)
Gcd(a, b) == IF b = 0 THEN a ELSE Gcd(b, a % b)
Abs(n) == IF n < 0 THEN -n ELSE n
Frac(n, d) ==
    LET g == Gcd(Abs(n), Abs(d))
        sgn == IF d < 0 THEN -1 ELSE 1
    IN [num |-> sgn * (n \div g), den |-> sgn * (d \div g)]
Float(n) == [num |-> n, den |-> 1]
\* a / b and a * b; the division raises ZeroDivisionError when b is 0
FloatDiv(a, b) ==
    IF b.num = 0 THEN [value |-> Float(0), error |-> ZeroDivisionError]
    ELSE [value |-> Frac(a.num * b.den, a.den * b.num), error |-> NoError]
FloatMul(a, b) == Frac(a.num * b.num, a.den * b.den)
FloatGt(a, b) == a.num * b.den > b.num * a.den

\* float(value): the inputs' OctetStrings are not numerals
PyFloat(v) ==
    IF v.type = "OctetString" THEN [value |-> Float(0), error |-> ValueError]
    ELSE [value |-> Float(v.val), error |-> NoError]

\* value.prettyPrint() of a printable OctetString: its text
PrettyPrint(v) == v.val

\* str.lower() and the substring test `x in s` on sequences of characters
UpperChars == <<"A", "B", "C", "D", "E", "F", "G", "H", "I", "J", "K", "L", "M",
                "N", "O", "P", "Q", "R", "S", "T", "U", "V", "W", "X", "Y", "Z">>
LowerChars == <<"a", "b", "c", "d", "e", "f", "g", "h", "i", "j", "k", "l", "m",
                "n", "o", "p", "q", "r", "s", "t", "u", "v", "w", "x", "y", "z">>
LowerChar(c) ==
    IF \E i \in DOMAIN UpperChars : UpperChars[i] = c
    THEN LowerChars[CHOOSE i \in DOMAIN UpperChars : UpperChars[i] = c]
    ELSE c
PyLower(s) == [i \in DOMAIN s |-> LowerChar(s[i])]
PyIn(x, s) == \E i \in 0 .. (Len(s) - Len(x)) : SubSeq(s, i + 1, i + Len(x)) = x

\* errorStatus.prettyPrint(): the name of the status code
StatusNames == <<"tooBig", "noSuchName", "badValue">>
StatusPrettyPrint(status) == IF status = 0 THEN "noError" ELSE StatusNames[status]

(*************************** processing helpers ****************************)
\* int(s) for the decimal strings str() produces from the integers of the inputs
IntValues == {0, 2, 35, 40, 48, 72, 9006100}
ParseInt(s) == CHOOSE n \in IntValues : ToString(n) = s

\* hundredths of a second -> "D days, H hours, M minutes, S seconds"
convert_to_readable_time(s) ==
    LET secs == ParseInt(s) \div 100
        d == secs \div 86400
        h == (secs % 86400) \div 3600
        m == (secs % 3600) \div 60
        sec == secs % 60
    IN ToString(d) \o " days, " \o ToString(h) \o " hours, " \o
       ToString(m) \o " minutes, " \o ToString(sec) \o " seconds"

\* the trailing index component of a row's OID
split_oid_index(oid) == IF Len(oid) = 0 THEN "" ELSE ToString(oid[Len(oid)])

(*************************** poll_properties *******************************)
mib_properties == <<
    "1.3.6.1.4.1.21671.4.1.1",
    "1.3.6.1.4.1.21671.4.1.2",
    "1.3.6.1.4.1.21671.4.2.1",
    "1.3.6.1.4.1.21671.4.2.2",
    "1.3.6.1.4.1.21671.4.2.3",
    "1.3.6.1.4.1.21671.4.2.4" >>

timeout == 2
retries == 1


\* names get_vss_properties assigns, by position in varBinds
FieldNames == <<"sysDescr", "sysObjectID", "sysUpTime", "sysContact",
                "sysName", "sysLocation", "sysServices", "sysORLastChange">>
TimeFields == {"sysUpTime", "sysORLastChange"}

\* the assignments of get_vss_properties from position i (0-based) on
RECURSIVE AssignFrom(_, _, _)
AssignFrom(i, varBinds, props) ==
    IF i >= Len(FieldNames) THEN [props |-> props, error |-> NoError]
    ELSE IF ~HasItem(varBinds, i) THEN [props |-> props, error |-> IndexError]
    ELSE LET name == Item(FieldNames, i)
             s == PyStr(Item(varBinds, i)[2])
             v == IF name \in TimeFields THEN convert_to_readable_time(s) ELSE s
         IN AssignFrom(i + 1, varBinds, DictSet(props, name, v))

get_vss_properties(varBinds, props) == AssignFrom(0, varBinds, props)

\* variant: the binding at position errorIndex instead of errorIndex - 1
ErrorLocation_NoOffset(errorIndex, varBinds) ==
    IF ~NonZero(errorIndex) THEN [at |-> "?", error |-> NoError]
    ELSE IF ~HasItem(varBinds, errorIndex) THEN [at |-> "", error |-> IndexError]
    ELSE LET oid == Item(varBinds, errorIndex)[1]
         IN [at |-> IF Len(oid) > 0 THEN OidStr(oid) ELSE "?", error |-> NoError]

\* errorIndex and varBinds[int(errorIndex) - 1][0] or '?'
ErrorLocation(errorIndex, varBinds) ==
    IF ~NonZero(errorIndex) THEN [at |-> "?", error |-> NoError]
    ELSE IF ~HasItem(varBinds, errorIndex - 1) THEN [at |-> "", error |-> IndexError]
    ELSE LET oid == Item(varBinds, errorIndex - 1)[1]
         IN [at |-> IF Len(oid) > 0 THEN OidStr(oid) ELSE "?", error |-> NoError]

\* variant: errorStatus is tested before errorIndication
CheckEnvelope_StatusFirst(env) ==
    IF NonZero(env.errorStatus) THEN
        LET loc == ErrorLocation(env.errorIndex, env.varBinds)
        IN IF loc.error # NoError THEN loc.error
           ELSE Exception(StatusPrettyPrint(env.errorStatus) \o " at " \o loc.at)
    ELSE IF Truthy(env.errorIndication) THEN Exception(env.errorIndication)
    ELSE NoError

\* the if / elif of poll_properties: the exception it raises, NoError on the else branch
CheckEnvelope(env) ==
    IF Truthy(env.errorIndication) THEN Exception(env.errorIndication)
    ELSE IF NonZero(env.errorStatus) THEN
        LET loc == ErrorLocation(env.errorIndex, env.varBinds)
        IN IF loc.error # NoError THEN loc.error
           ELSE Exception(StatusPrettyPrint(env.errorStatus) \o " at " \o loc.at)
    ELSE NoError

(*************************** poll_metrics **********************************)
cpu_metrics == <<
    " .1.3.6.1.4.1.21671.4.6.1.1.2",
    " .1.3.6.1.4.1.21671.4.6.1.1.3",
    " .1.3.6.1.4.1.21671.4.6.1.1.4",
    " .1.3.6.1.4.1.21671.4.6.1.1.5",
    " .1.3.6.1.4.1.21671.4.6.1.1.6",
    " .1.3.6.1.4.1.21671.4.6.1.1.7",
    " .1.3.6.1.4.1.21671.4.6.1.1.8",
    " .1.3.6.1.4.1.21671.4.6.1.1.11",
    " .1.3.6.1.4.1.21671.4.6.1.1.12",
    " .1.3.6.1.4.1.21671.4.6.1.1.13",
    " .1.3.6.1.4.1.21671.4.6.1.1.14",
    " .1.3.6.1.4.1.21671.4.6.1.1.19",
    " .1.3.6.1.4.1.21671.4.6.1.1.20",
    " .1.3.6.1.4.1.21671.4.6.1.1.21",
    " .1.3.6.1.4.1.21671.4.6.1.1.22" >>

\* the list literal has no commas after its third line: the last five
\* string literals are one element
storage_metrics == <<
    "1.3.6.1.4.1.21671.4.3.1.1.2",
    "1.3.6.1.4.1.21671.4.3.1.1.3",
    "1.3.6.1.4.1.21671.4.3.1.1.4" \o "1.3.6.1.4.1.21671.4.3.1.1.5" \o
    "1.3.6.1.4.1.21671.4.3.1.1.6" \o "1.3.6.1.4.1.21671.4.3.1.1.7" \o
    "1.3.6.1.4.1.21671.4.3.1.1.8" >>

\* attributes of a VSSAggregatorMIB instance and names bound at module level
Attributes == {"poller", "poll_properties", "poll_metrics",
               "_poll_NetworkActivityStats", "_poll_PortStatus"}
GlobalNames == {"logging", "Poller", "convert_to_readable_time", "process_metrics",
                "reduce_average", "split_oid_index", "logger", "VSSAggregatorMIB",
                "calculate_network_metrics", "calculate_port_metrics", "get_vss_properties"}
NameError(name) == [type |-> "NameError", msg |-> "name '" \o name \o "' is not defined"]

\* poll_metrics after its first sub-poll returned: self._poll_storage() and
\* cpu.get(...) are evaluated before the result mapping is built
poll_metrics_rest ==
    IF "_poll_storage" \notin Attributes THEN AttributeError("_poll_storage")
    ELSE IF "cpu" \notin GlobalNames THEN NameError("cpu")
    ELSE NoError

calculate_network_metrics(varBinds, m) ==
    IF ~HasItem(varBinds, 0) THEN [metrics |-> m, error |-> IndexError]
    ELSE LET index == split_oid_index(Item(varBinds, 0)[1])
             value == PyFloat(Item(varBinds, 0)[2])
             cpu == [value |-> value.value, dimension |-> [Index |-> index],
                     is_absolute_number |-> TRUE]
         IN IF value.error # NoError THEN [metrics |-> m, error |-> value.error]
            ELSE [metrics |-> SetDefaultAppend(m, "cpu", cpu), error |-> NoError]

memory_types == << <<"m", "e", "m", "o", "r", "y">>,
                   <<"s", "w", "a", "p", " ", "s", "p", "a", "c", "e">>,
                   <<"r", "a", "m">> >>

\* variant: the guard is size >= 0
Utilisation_NoGuard(size, used) ==
    IF ~FloatGt(Float(0), size)
    THEN LET q == FloatDiv(used, size)
         IN [value |-> FloatMul(q.value, Float(100)), error |-> q.error]
    ELSE [value |-> Float(0), error |-> NoError]

\* utilisation = 0; if size > 0: utilisation = (used / size) * 100
Utilisation(size, used) ==
    IF FloatGt(size, Float(0))
    THEN LET q == FloatDiv(used, size)
         IN [value |-> FloatMul(q.value, Float(100)), error |-> q.error]
    ELSE [value |-> Float(0), error |-> NoError]

\* variant: the label is not lower-cased
IsMemoryType_CaseSensitive(name) == \E i \in DOMAIN memory_types : PyIn(memory_types[i], name)

\* any(x in name.lower() for x in memory_types)
IsMemoryType(name) == \E i \in DOMAIN memory_types : PyIn(memory_types[i], PyLower(name))

calculate_port_metrics(varBinds, m) ==
    IF ~HasItem(varBinds, 0) THEN [metrics |-> m, error |-> IndexError]
    ELSE IF ~HasItem(varBinds, 1) THEN [metrics |-> m, error |-> IndexError]
    ELSE LET name == PrettyPrint(Item(varBinds, 0)[2])
             size == PyFloat(Item(varBinds, 1)[2])
         IN IF size.error # NoError THEN [metrics |-> m, error |-> size.error]
            ELSE IF ~HasItem(varBinds, 2) THEN [metrics |-> m, error |-> IndexError]
            ELSE LET used == PyFloat(Item(varBinds, 2)[2])
                     utilisation == Utilisation(size.value, used.value)
                     storage == [dimension |-> [Storage |-> name],
                                 value |-> utilisation.value,
                                 is_absolute_number |-> TRUE]
                 IN IF used.error # NoError THEN [metrics |-> m, error |-> used.error]
                    ELSE IF utilisation.error # NoError
                    THEN [metrics |-> m, error |-> utilisation.error]
                    ELSE IF IsMemoryType(name)
                    THEN [metrics |-> SetDefaultAppend(m, "memory", storage), error |-> NoError]
                    ELSE [metrics |-> SetDefaultAppend(m, "disk", storage), error |-> NoError]

\* processor(varBinds, metrics) for the function process_metrics was given
Process(name, varBinds, m) ==
    IF name = "calculate_network_metrics" THEN calculate_network_metrics(varBinds, m)
    ELSE calculate_port_metrics(varBinds, m)

\* references
NewRef(h) == IF DOMAIN h = {} THEN 1
             ELSE (CHOOSE i \in DOMAIN h : \A j \in DOMAIN h : j <= i) + 1
\* variant: one dict object shared by all calls
NewDict_Shared(h) == 1

\* a new dict object: {}
NewDict(h) == NewRef(h)
Alloc(h, ref) == [i \in (DOMAIN h) \cup {ref} |-> IF i = ref THEN EmptyDict ELSE h[i]]
Store(h, ref, d) == [h EXCEPT ![ref] = d]
\* objects the caller still references
Keep(h, refs) == [i \in (DOMAIN h) \cap refs |-> h[i]]
Refs(seq) == {seq[i] : i \in DOMAIN seq}

\* variant: props is returned although the extraction raised
poll_properties_Partial(gen, h, props) ==
    LET env == Item(gen, 0)
        raised == CheckEnvelope(env)
        ex == get_vss_properties(env.varBinds, h[props])
    IN IF raised # NoError
       THEN [consumed |-> 1, events |-> <<"next">>, outcome |-> "raised",
             error |-> raised, result |-> 0, heap |-> h]
       ELSE [consumed |-> 1, events |-> <<"next", "get_vss_properties">>, outcome |-> "returned",
             error |-> NoError, result |-> props, heap |-> Store(h, props, ex.props)]

\* variant: every envelope of the response is read, the last one is processed
poll_properties_Drain(gen, h, props) ==
    LET env == Item(gen, Len(gen) - 1)
        raised == CheckEnvelope(env)
        ex == get_vss_properties(env.varBinds, h[props])
        reads == [i \in 1 .. Len(gen) |-> "next"]
    IN IF raised # NoError
       THEN [consumed |-> Len(gen), events |-> reads, outcome |-> "raised",
             error |-> raised, result |-> 0, heap |-> h]
       ELSE IF ex.error # NoError
       THEN [consumed |-> Len(gen), events |-> reads \o <<"get_vss_properties">>, outcome |-> "raised",
             error |-> ex.error, result |-> 0, heap |-> Store(h, props, ex.props)]
       ELSE [consumed |-> Len(gen), events |-> reads \o <<"get_vss_properties">>, outcome |-> "returned",
             error |-> NoError, result |-> props, heap |-> Store(h, props, ex.props)]

\* poll_properties from next(gen) on, with props the dict made at `props = {}`:
\* the first envelope is read, checked, and its bindings extracted into props
poll_properties(gen, h, props) ==
    LET env == Item(gen, 0)
        raised == CheckEnvelope(env)
        ex == get_vss_properties(env.varBinds, h[props])
    IN IF raised # NoError
       THEN [consumed |-> 1, events |-> <<"next">>, outcome |-> "raised",
             error |-> raised, result |-> 0, heap |-> h]
       ELSE IF ex.error # NoError
       THEN [consumed |-> 1, events |-> <<"next", "get_vss_properties">>, outcome |-> "raised",
             error |-> ex.error, result |-> 0, heap |-> Store(h, props, ex.props)]
       ELSE [consumed |-> 1, events |-> <<"next", "get_vss_properties">>, outcome |-> "returned",
             error |-> NoError, result |-> props, heap |-> Store(h, props, ex.props)]

(*************************** inputs ****************************************)
Oid(s) == <<1, 3, 6, 1, 4, 1, 21671, 4>> \o s

VendorBinds == <<
    <<Oid(<<1, 1>>), OctetString("ModelX")>>,
    <<Oid(<<1, 2>>), OctetString("2.1")>>,
    <<Oid(<<2, 1>>), Integer32(48)>>,
    <<Oid(<<2, 2>>), Integer32(35)>>,
    <<Oid(<<2, 3>>), Integer32(40)>>,
    <<Oid(<<2, 4>>), Integer32(2)>> >>

SystemBinds(name, ticks) == <<
    <<<<1, 3, 6, 1, 2, 1, 1, 1, 0>>, OctetString("VSS Aggregator")>>,
    <<<<1, 3, 6, 1, 2, 1, 1, 2, 0>>, OctetString("1.3.6.1.4.1.21671")>>,
    <<<<1, 3, 6, 1, 2, 1, 1, 3, 0>>, TimeTicks(ticks)>>,
    <<<<1, 3, 6, 1, 2, 1, 1, 4, 0>>, OctetString("noc")>>,
    <<<<1, 3, 6, 1, 2, 1, 1, 5, 0>>, OctetString(name)>>,
    <<<<1, 3, 6, 1, 2, 1, 1, 6, 0>>, OctetString("lab")>>,
    <<<<1, 3, 6, 1, 2, 1, 1, 7, 0>>, Integer32(72)>>,
    <<<<1, 3, 6, 1, 2, 1, 1, 8, 0>>, TimeTicks(0)>> >>

PropertyBinds == {<<>>, SubSeq(VendorBinds, 1, 2), VendorBinds,
                  SystemBinds("agg1", 9006100), SystemBinds("agg2", 0)}

Envelope(ind, status, index, binds) ==
    [errorIndication |-> ind, errorStatus |-> status, errorIndex |-> index, varBinds |-> binds]

PropertyEnvelopes ==
    {Envelope(ind, status, index, binds) :
        ind \in {None, "requestTimedOut"}, status \in {0, 2}, index \in 0 .. 3,
        binds \in PropertyBinds}

\* what follows the first envelope in the response sequence
LaterEnvelopes == {Envelope(None, 0, 0, VendorBinds), Envelope("requestTimedOut", 0, 0, <<>>)}

\* rows of the network activity table
NetworkRow(port, value) == Envelope(None, 0, 0, << <<Oid(<<6, 1, 1, 7, port>>), value>> >>)
NetworkRows ==
    {NetworkRow(port, Integer32(v)) : port \in {1, 2}, v \in {0, 48}}
    \cup {NetworkRow(1, OctetString("n/a")), Envelope("requestTimedOut", 0, 0, <<>>)}

\* rows of a storage table: label, size, used
SwapSpace == <<"S", "w", "a", "p", " ", "S", "p", "a", "c", "e">>
StorageLabels == {
    SwapSpace,
    <<"P", "h", "y", "s", "i", "c", "a", "l", " ", "M", "e", "m", "o", "r", "y">>,
    <<"R", "A", "M">>,
    <<"/", "f", "r", "a", "m", "e", "s">>,
    <<"C", ":", "\\">>,
    <<"/", "d", "e", "v", "/", "s", "d", "a", "1">>,
    <<"S", "w", "a", "p", "S", "p", "a", "c", "e">> }
StorageBinds(label, size, used) == <<
    <<Oid(<<3, 1, 1, 3, 1>>), OctetString(label)>>,
    <<Oid(<<3, 1, 1, 6, 1>>), size>>,
    <<Oid(<<3, 1, 1, 8, 1>>), used>> >>
StorageRow(label, size, used) ==
    Envelope(None, 0, 0, StorageBinds(label, Integer32(size), Integer32(used)))
StorageRows ==
    {StorageRow(label, su[1], su[2]) : label \in StorageLabels, su \in {<<200, 50>>, <<0, 0>>}}
    \cup {StorageRow(SwapSpace, size, used) : size \in {-4, 0, 3, 200}, used \in {0, 50}}
    \cup {Envelope(None, 0, 0, SubSeq(StorageBinds(SwapSpace, Integer32(200), Integer32(50)), 1, 2)),
          Envelope(None, 0, 0, StorageBinds(SwapSpace, OctetString(<<"n", "/", "a">>), Integer32(50))),
          Envelope("requestTimedOut", 0, 0, <<>>)}

Rows(name) == IF name = "calculate_network_metrics" THEN NetworkRows ELSE StorageRows

RECURSIVE SeqsUpTo(_, _)
SeqsUpTo(S, n) ==
    IF n = 0 THEN {<<>>}
    ELSE LET shorter == SeqsUpTo(S, n - 1)
         IN shorter \cup {Append(s, x) : s \in {t \in shorter : Len(t) = n - 1}, x \in S}

PropertyResponses ==
    {<<first>> \o rest : first \in PropertyEnvelopes, rest \in SeqsUpTo(LaterEnvelopes, MaxEnvelopes - 1)}

(*************************** state machine *********************************)
Init ==
    /\ pc = "idle"
    /\ call = "none"
    /\ requests = <<>>
    /\ response = <<>>
    /\ consumed = 0
    /\ events = <<>>
    /\ outcome = "none"
    /\ error = NoError
    /\ result = 0
    /\ heap = <<>>
    /\ returned = <<>>
    /\ acc = 0
    /\ processor = ""

\* a method is entered: its locals are new, the last call's unreferenced objects are gone
Enter(name, request) ==
    /\ pc = "idle"
    /\ call' = name
    /\ requests' = <<request>>
    /\ response' = <<>>
    /\ consumed' = 0
    /\ outcome' = "none"
    /\ error' = NoError
    /\ result' = 0
    /\ UNCHANGED returned

\* poll_properties up to next(gen): the request, then props = {}
PollProperties ==
    /\ Len(returned) < MaxCalls
    /\ Enter("poll_properties", <<mib_properties, timeout, retries>>)
    /\ LET h == Keep(heap, Refs(returned))
           props == NewDict(h)
       IN /\ heap' = Alloc(h, props)
          /\ acc' = props
    /\ events' = <<"snmp_connect_bulk">>
    /\ pc' = "poll_properties"
    /\ UNCHANGED processor

\* poll_properties from next(gen) to its end
PollPropertiesNext ==
    /\ pc = "poll_properties"
    /\ \E gen \in PropertyResponses :
        LET r == poll_properties(gen, heap, acc)
        IN /\ response' = gen
           /\ consumed' = r.consumed
           /\ events' = events \o r.events
           /\ outcome' = r.outcome
           /\ error' = r.error
           /\ result' = r.result
           /\ returned' = IF r.result # 0 THEN Append(returned, r.result) ELSE returned
           /\ heap' = Keep(r.heap, Refs(returned'))
    /\ acc' = 0
    /\ pc' = "idle"
    /\ UNCHANGED <<call, requests, processor>>

\* a sub-poll up to the first iteration of process_metrics: the request, then metrics = {}
Walk(name, oids, fn, trail) ==
    /\ Enter(name, <<oids>>)
    /\ LET h == Keep(heap, Refs(returned))
           m == NewDict(h)
       IN /\ heap' = Alloc(h, m)
          /\ acc' = m
    /\ processor' = fn
    /\ events' = trail \o <<"snmp_connect_bulk", "process_metrics">>
    /\ pc' = "process_metrics"

PollMetrics ==
    /\ pc = "idle"
    /\ Walk("poll_metrics", cpu_metrics, "calculate_network_metrics", <<"_poll_NetworkActivityStats">>)

PollNetworkActivityStats ==
    /\ pc = "idle"
    /\ Walk("_poll_NetworkActivityStats", cpu_metrics, "calculate_network_metrics", <<>>)

PollPortStatus ==
    /\ pc = "idle"
    /\ Walk("_poll_PortStatus", storage_metrics, "calculate_port_metrics", <<>>)

\* one iteration of process_metrics: the generator yields a row
ProcessMetricsRow ==
    /\ pc = "process_metrics"
    /\ consumed < MaxRows
    /\ \E env \in Rows(processor) :
        LET r == Process(processor, env.varBinds, heap[acc])
        IN /\ response' = Append(response, env)
           /\ consumed' = consumed + 1
           /\ events' = Append(events, processor)
           /\ IF r.error # NoError
              THEN /\ outcome' = "raised"
                   /\ error' = r.error
                   /\ heap' = Keep(heap, Refs(returned))
                   /\ acc' = 0
                   /\ processor' = ""
                   /\ pc' = "idle"
              ELSE /\ heap' = Store(heap, acc, r.metrics)
                   /\ UNCHANGED <<outcome, error, acc, processor, pc>>
    /\ UNCHANGED <<call, requests, result, returned>>

\* the generator is exhausted: process_metrics returns metrics to the method
ProcessMetricsEnd ==
    /\ pc = "process_metrics"
    /\ IF call = "poll_metrics"
       THEN /\ outcome' = IF poll_metrics_rest # NoError THEN "raised" ELSE "returned"
            /\ error' = poll_metrics_rest
            /\ result' = 0
            /\ heap' = Keep(heap, Refs(returned))
       ELSE /\ outcome' = "returned"
            /\ result' = acc
            /\ UNCHANGED <<error, heap>>
    /\ acc' = 0
    /\ processor' = ""
    /\ pc' = "idle"
    /\ UNCHANGED <<call, requests, response, consumed, events, returned>>

Next ==
    \/ PollProperties
    \/ PollPropertiesNext
    \/ PollMetrics
    \/ PollNetworkActivityStats
    \/ PollPortStatus
    \/ ProcessMetricsRow
    \/ ProcessMetricsEnd

Spec == Init /\ [][Next]_vars

(*************************** properties ************************************)
\* a poll_properties call has ended
PropertiesDone == call = "poll_properties" /\ pc = "idle"
FirstEnvelope == response[1]
SuccessEnvelope(env) == env.errorIndication = None /\ env.errorStatus = 0
FieldNameSet == {FieldNames[i] : i \in DOMAIN FieldNames}
Count(seq, x) == Cardinality({i \in DOMAIN seq : seq[i] = x})

\* C1: for a success envelope with as many bindings as mib_properties has OIDs,
\* poll_properties returns a mapping whose keys are exactly the field names,
\* sysUpTime and sysORLastChange being the time transform of their bindings and
\* every other value the plain string of the binding at the same position.
C1_MappingForCatalogLength ==
    (PropertiesDone /\ SuccessEnvelope(FirstEnvelope)
         /\ Len(FirstEnvelope.varBinds) = Len(mib_properties)) =>
        /\ outcome = "returned"
        /\ result \in DOMAIN heap
        /\ DOMAIN heap[result] = FieldNameSet
        /\ \A i \in DOMAIN FieldNames :
            heap[result][FieldNames[i]] =
                IF FieldNames[i] \in {"sysUpTime", "sysORLastChange"}
                THEN convert_to_readable_time(PyStr(FirstEnvelope.varBinds[i][2]))
                ELSE PyStr(FirstEnvelope.varBinds[i][2])

\* C2: with the six vendor OIDs requested and a success envelope carrying the
\* six bindings in catalog order, poll_properties does not raise: the extractor
\* reads as many positions as the catalog has entries.
C2_VendorEnvelopeExtracts ==
    (PropertiesDone /\ SuccessEnvelope(FirstEnvelope) /\ FirstEnvelope.varBinds = VendorBinds) =>
        /\ requests = << <<mib_properties, timeout, retries>> >>
        /\ outcome # "raised"
        /\ Len(FieldNames) = Len(mib_properties)

\* C3: poll_metrics returns a mapping with exactly the keys cpu_utilisation,
\* memory_utilisation and disk_utilisation (cpu_utilisation empty for a device
\* without CPU rows) whenever no row extraction failed.
C3_MetricsMapping ==
    (call = "poll_metrics" /\ pc = "idle" /\ error.type \notin {"IndexError", "ValueError"}) =>
        /\ outcome = "returned"
        /\ result \in DOMAIN heap
        /\ DOMAIN heap[result] = {"cpu_utilisation", "memory_utilisation", "disk_utilisation"}
        /\ (consumed = 0 => heap[result]["cpu_utilisation"] = <<>>)

\* C4: when the first envelope has a non-empty errorIndication, poll_properties
\* raises an exception whose message is that indication, whatever errorStatus,
\* errorIndex and the bindings are, and get_vss_properties is not run.
C4_IndicationFirst ==
    (PropertiesDone /\ FirstEnvelope.errorIndication \notin {None, ""}) =>
        /\ outcome = "raised"
        /\ error.type = "Exception"
        /\ error.msg = FirstEnvelope.errorIndication
        /\ Count(events, "get_vss_properties") = 0
        /\ result = 0

C4_Witness ==
    /\ PropertiesDone
    /\ FirstEnvelope = Envelope("requestTimedOut", 2, 2, VendorBinds)
    /\ error.msg = "requestTimedOut"

\* C5: with no errorIndication and a non-zero errorStatus, poll_properties
\* raises an exception whose message is the status text, " at ", and the OID of
\* the binding at zero-based position errorIndex - 1 when errorIndex is a
\* position of the binding list, or "?" when errorIndex is zero.
C5_StatusMessage ==
    (PropertiesDone /\ FirstEnvelope.errorIndication = None /\ FirstEnvelope.errorStatus # 0) =>
        LET k == FirstEnvelope.errorIndex
            binds == FirstEnvelope.varBinds
            text == StatusNames[FirstEnvelope.errorStatus]
        IN /\ outcome = "raised"
           /\ result = 0
           /\ k = 0 => error = [type |-> "Exception", msg |-> text \o " at ?"]
           /\ k \in 1 .. Len(binds) =>
                 error = [type |-> "Exception", msg |-> text \o " at " \o OidStr(binds[k][1])]
           /\ (k = 2 /\ binds = VendorBinds) =>
                 error.msg = "noSuchName at 1.3.6.1.4.1.21671.4.1.2"

C5_Witness ==
    /\ PropertiesDone
    /\ FirstEnvelope = Envelope(None, 2, 2, VendorBinds)
    /\ error.msg = "noSuchName at 1.3.6.1.4.1.21671.4.1.2"

\* the storage walk: rows read so far and the accumulator they were recorded in
PortWalk == call = "_poll_PortStatus" /\ (pc = "process_metrics" \/ outcome = "returned")
Accumulator == IF pc = "process_metrics" THEN heap[acc] ELSE heap[result]
Bucket(m, k) == IF k \in DOMAIN m THEN m[k] ELSE <<>>
RowLabel(env) == env.varBinds[1][2].val
RowSize(env) == env.varBinds[2][2].val
RowUsed(env) == env.varBinds[3][2].val
\* the labels of StorageLabels that contain memory, swap space or ram in any case
MemoryLike == {
    <<"S", "w", "a", "p", " ", "S", "p", "a", "c", "e">>,
    <<"P", "h", "y", "s", "i", "c", "a", "l", " ", "M", "e", "m", "o", "r", "y">>,
    <<"R", "A", "M">>,
    <<"/", "f", "r", "a", "m", "e", "s">> }
IsMemoryRow(env) == RowLabel(env) \in MemoryLike
IsDiskRow(env) == RowLabel(env) \notin MemoryLike
MemoryRows == SelectSeq(response, IsMemoryRow)
DiskRows == SelectSeq(response, IsDiskRow)
UtilisationOf(env, v) ==
    IF RowSize(env) > 0
    THEN v.den > 0 /\ v.num * RowSize(env) = RowUsed(env) * 100 * v.den
    ELSE v = [num |-> 0, den |-> 1]

\* C6: the value recorded for a storage row is used / size * 100 when size > 0
\* and 0 otherwise, and no storage row ends the walk with a division by zero.
C6_Utilisation ==
    /\ call = "_poll_PortStatus" => error.type # "ZeroDivisionError"
    /\ PortWalk =>
        /\ \A i \in 1 .. Len(MemoryRows) :
              /\ i <= Len(Bucket(Accumulator, "memory"))
              /\ UtilisationOf(MemoryRows[i], Bucket(Accumulator, "memory")[i].value)
        /\ \A i \in 1 .. Len(DiskRows) :
              /\ i <= Len(Bucket(Accumulator, "disk"))
              /\ UtilisationOf(DiskRows[i], Bucket(Accumulator, "disk")[i].value)

C6_Witness ==
    /\ PortWalk
    /\ outcome = "returned"
    /\ response = <<StorageRow(SwapSpace, 0, 0), StorageRow(SwapSpace, 200, 50)>>
    /\ heap[result]["memory"][1].value = [num |-> 0, den |-> 1]
    /\ heap[result]["memory"][2].value = [num |-> 25, den |-> 1]

Labels(records) == [i \in DOMAIN records |-> records[i].dimension.Storage]
RowLabels(rows) == [i \in DOMAIN rows |-> RowLabel(rows[i])]
C7_Buckets ==
    PortWalk =>
        /\ DOMAIN Accumulator \subseteq {"memory", "disk"}
        /\ Labels(Bucket(Accumulator, "memory")) = RowLabels(MemoryRows)
        /\ Labels(Bucket(Accumulator, "disk")) = RowLabels(DiskRows)
        /\ Len(Bucket(Accumulator, "memory")) + Len(Bucket(Accumulator, "disk")) = consumed
        /\ consumed = Len(response)
C7_Row ==
    (call = "_poll_PortStatus" /\ pc = "process_metrics" /\ pc' = "process_metrics"
        /\ consumed' = consumed + 1) =>
        LET old == heap[acc]
            new == heap'[acc]
            own == IF IsMemoryRow(response'[Len(response')]) THEN "memory" ELSE "disk"
            other == IF own = "memory" THEN "disk" ELSE "memory"
        IN /\ Len(Bucket(new, own)) = Len(Bucket(old, own)) + 1
           /\ SubSeq(Bucket(new, own), 1, Len(Bucket(old, own))) = Bucket(old, own)
           /\ Bucket(new, other) = Bucket(old, other)

\* C7: each storage row appends one record to one bucket, memory exactly when
\* the lower-cased label contains memory, swap space or ram and disk otherwise,
\* and changes no record already there; after n rows the two buckets hold the n
\* records in arrival order.
C7_Classification == []C7_Buckets /\ [][C7_Row]_vars

C7_Witness ==
    /\ PortWalk
    /\ response = <<StorageRow(SwapSpace, 200, 50), StorageRow(<<"C", ":", "\\">>, 200, 50)>>
    /\ Len(Bucket(Accumulator, "memory")) = 1
    /\ Len(Bucket(Accumulator, "disk")) = 1

\* C8: poll_properties hands a mapping to the caller only when the envelope has
\* neither an errorIndication nor an errorStatus and every field was extracted;
\* a run that fails ends with an exception and no mapping, partial or not; a
\* poll_metrics run that fails hands over no mapping either.
C8_NoPartialResult ==
    /\ PropertiesDone =>
        /\ outcome \in {"returned", "raised"}
        /\ outcome = "returned" =>
            /\ SuccessEnvelope(FirstEnvelope)
            /\ result \in DOMAIN heap
            /\ DOMAIN heap[result] = FieldNameSet
        /\ (~SuccessEnvelope(FirstEnvelope) \/ Len(FirstEnvelope.varBinds) < Len(FieldNames)) =>
            outcome = "raised"
    /\ (pc = "idle" /\ outcome = "raised") =>
        /\ result = 0
        /\ error # NoError
        /\ DOMAIN heap = Refs(returned)
    /\ pc = "idle" => (result = 0 <=> outcome # "returned")

C8_Witness ==
    /\ PropertiesDone
    /\ FirstEnvelope = Envelope(None, 0, 0, VendorBinds)
    /\ Count(events, "get_vss_properties") = 1
    /\ error = IndexError
    /\ result = 0

\* C9: a poll_properties call issues one bulk request, for mib_properties with
\* timeout 2 and 1 retry, before it reads or checks anything, and reads exactly
\* the first envelope of the response, whether it then returns or raises.
C9_OneRequestOneEnvelope ==
    call = "poll_properties" =>
        /\ requests = << <<mib_properties, 2, 1>> >>
        /\ Count(events, "snmp_connect_bulk") = 1
        /\ events[1] = "snmp_connect_bulk"
        /\ pc = "poll_properties" =>
            consumed = 0 /\ outcome = "none" /\ Len(events) = 1
        /\ pc = "idle" =>
            /\ consumed = 1
            /\ Count(events, "next") = 1
            /\ events[2] = "next"
            /\ outcome \in {"returned", "raised"}

C9_Witness ==
    /\ PropertiesDone
    /\ Len(response) = 2
    /\ consumed = 1
    /\ outcome = "returned"

C10_Fresh ==
    /\ (pc # "idle" /\ consumed = 0) => (heap[acc] = EmptyDict /\ acc \notin Refs(returned))
    /\ \A i, j \in DOMAIN returned : returned[i] = returned[j] => i = j
    /\ (PropertiesDone /\ outcome = "returned") =>
        \A i \in DOMAIN FieldNames :
            LET own == PyStr(FirstEnvelope.varBinds[i][2])
            IN heap[result][FieldNames[i]] =
                   IF i \in {3, 8} THEN convert_to_readable_time(own) ELSE own
C10_Untouched ==
    \A r \in Refs(returned) : r \in DOMAIN heap' /\ heap'[r] = heap[r]

\* C10: every call starts from an empty accumulator of its own, the mapping it
\* returns is made of the values of its own envelope, and no step of a later
\* call, successful or failed, changes a mapping returned earlier.
C10_NoSharedState == []C10_Fresh /\ [][C10_Untouched]_vars

C10_Witness ==
    /\ Len(returned) = 2
    /\ heap[returned[1]] # heap[returned[2]]
    /\ call = "poll_metrics"
    /\ outcome = "raised"
====
